---- MODULE Spec2Model ----
(***************************************************************************)
(* Ownership Validator: the quiz pipeline of src/ownership_validator.py    *)
(* (setup_llama_index, load_prompts, generate_quiz, main), its server      *)
(* entry point backend/server.py, and the Exploration Agent of the         *)
(* directory mode.                                                         *)
(*                                                                         *)
(* One process is modelled.  It is either a command-line run (one          *)
(* invocation, main) or the server, whose handler read_root is a plain     *)
(* `def` and so runs concurrently for concurrent requests.  The module     *)
(* level object Settings (llama_index.core.Settings) is process-wide.      *)
(***************************************************************************)
EXTENDS Naturals, Sequences, FiniteSets

(* ------------------------------ bounds -------------------------------- *)
\* number of generate_quiz invocations the process sees
NumInv == 2
\* length of the window of agent states that is remembered
HistLen == 4
\* the cycle counter of the agent saturates here (the loop itself goes on)
CycleWindow == 3

(* ----------------------------- constants ------------------------------ *)
DEFAULT_LLM_MODEL == "z-ai/glm-4.7-flash:free"
DEFAULT_BASE_URL == "https://openrouter.ai/api/v1"

\* None and "" are both falsy in `if not x` / `if x` / `x or y`
Absent == ""

Invs == 1 .. NumInv
ApiKeys == {Absent, "k1"}
ModelNames == {Absent, "m1"}
BaseUrls == {Absent, "u1"}
EnvKeys == {Absent, "ek"}
EnvUrls == {Absent, "eu"}
\* what the target path is on disk
FileStates == {"missing", "unreadable", "ok"}
\* what prompts/ownership_validator.yaml is on disk:
\*   missing     os.path.exists is false
\*   unparsable  open or yaml.safe_load raises
\*   nonmapping  safe_load returns None, a list or a scalar (e.g. an empty file)
\*   nokey       a mapping whose quiz_generation_prompt is absent, empty or null
\*   ok          a mapping with a non-empty quiz_generation_prompt
PromptStates == {"missing", "unparsable", "nonmapping", "nokey", "ok"}

\* Settings.llm before anything was assigned to it
NoClient == [model |-> Absent, api_key |-> Absent, api_base |-> Absent]
\* what the library resolves Settings.llm to when nothing was assigned
LibraryDefaultClient ==
  [model |-> "library-default", api_key |-> "library-env", api_base |-> "library-default"]
NoArgs == [entry |-> "none", file |-> "ok", model |-> Absent, api_key |-> Absent, base_url |-> Absent]

VARIABLES
  envKey,        \* os.environ LLM_API_KEY (Absent: unset or empty)
  envUrl,        \* os.environ LLM_BASE_URL (Absent: unset)
  mode,          \* "none", "cli" or "server"
  Settings_llm,  \* Settings.llm, process-wide
  pc,            \* position of each invocation
  args,          \* the arguments of each invocation
  engineLlm,     \* the llm the invocation's query engine was built with
  callClient,    \* the client that served the invocation's model call
  modelCalls,    \* number of query_engine.query calls of the invocation
  fsAccess,      \* the invocation touched the filesystem
  readAttempted, \* the invocation opened the target file
  promptState,   \* what load_prompts found ("unread" before)
  banner,        \* the quiz banner was printed
  outcome,       \* how the invocation ended ("none" while running)
  agentState,    \* Reasoning, ToolCall, Observing, Done
  agentHistory,  \* the last HistLen agent states, oldest first
  toolRequest,   \* the tool request being served
  observation,   \* the last observation appended to the transcript
  cycles         \* reasoning/tool-call cycles so far, saturating at CycleWindow

quizVars == <<envKey, envUrl, mode, Settings_llm, pc, args, engineLlm, callClient,
              modelCalls, fsAccess, readAttempted, promptState, banner, outcome>>
agentVars == <<agentState, agentHistory, toolRequest, observation, cycles>>
vars == <<quizVars, agentVars>>

(* ------------------------ setup_llama_index --------------------------- *)
\* lines 32-33: the key the client gets
ResolveApiKey(api_key) == IF api_key = Absent THEN envKey ELSE api_key

\* lines 34-35: the base URL the client gets
ResolveBaseUrl(base_url) ==
  IF base_url = Absent
    THEN (IF envUrl = Absent THEN DEFAULT_BASE_URL ELSE envUrl)
    ELSE base_url

\* lines 37-39: sys.exit(1) when no key was found
SetupExits(api_key) == ResolveApiKey(api_key) = Absent

\* lines 41-46: the OpenAI client assigned to Settings.llm
SetupClient(llm_model, api_key, base_url) ==
  [model |-> llm_model, api_key |-> ResolveApiKey(api_key), api_base |-> ResolveBaseUrl(base_url)]

\* `model_name or DEFAULT_LLM_MODEL`, line 95
ModelOrDefault(model_name) == IF model_name = Absent THEN DEFAULT_LLM_MODEL ELSE model_name

(* ------------------------------ Init ---------------------------------- *)
Init ==
  /\ envKey \in EnvKeys
  /\ envUrl \in EnvUrls
  /\ mode = "none"
  /\ Settings_llm = NoClient
  /\ pc = [i \in Invs |-> "idle"]
  /\ args = [i \in Invs |-> NoArgs]
  /\ engineLlm = [i \in Invs |-> NoClient]
  /\ callClient = [i \in Invs |-> NoClient]
  /\ modelCalls = [i \in Invs |-> 0]
  /\ fsAccess = [i \in Invs |-> FALSE]
  /\ readAttempted = [i \in Invs |-> FALSE]
  /\ promptState = [i \in Invs |-> "unread"]
  /\ banner = [i \in Invs |-> FALSE]
  /\ outcome = [i \in Invs |-> "none"]
  /\ agentState = "Reasoning"
  /\ agentHistory = <<"Reasoning">>
  /\ toolRequest = [tool |-> "none", wellFormed |-> TRUE]
  /\ observation = "none"
  /\ cycles = 0

(* ------------------------------ main ---------------------------------- *)
\* invocations are numbered in the order in which they arrive
NextToArrive(i) == pc[i] = "idle" /\ \A j \in Invs : j < i => pc[j] # "idle"

\* main, lines 125-136: parse the arguments, setup_llama_index with all four of
\* them, then generate_quiz.  --model defaults to DEFAULT_LLM_MODEL.
CliMain(i, file, model, api_key, base_url) ==
  /\ mode = "none"
  /\ NextToArrive(i)
  /\ mode' = "cli"
  /\ args' = [args EXCEPT ![i] = [entry |-> "cli", file |-> file, model |-> ModelOrDefault(model),
                                  api_key |-> api_key, base_url |-> base_url]]
  /\ IF SetupExits(api_key)
       THEN /\ pc' = [pc EXCEPT ![i] = "failed"]
            /\ outcome' = [outcome EXCEPT ![i] = "ConfigurationError"]
            /\ UNCHANGED Settings_llm
       ELSE /\ pc' = [pc EXCEPT ![i] = "gq_read"]
            /\ Settings_llm' = SetupClient(ModelOrDefault(model), api_key, base_url)
            /\ UNCHANGED outcome
  /\ UNCHANGED <<envKey, envUrl, engineLlm, callClient, modelCalls, fsAccess,
                 readAttempted, promptState, banner, agentVars>>

(* ---------------------------- read_root ------------------------------- *)
\* server.py lines 6-9: generate_quiz(request.file_path, request.model_name,
\* request.api_key); the fields are any strings, the empty one included.
ReadRoot(i, file, model, api_key) ==
  /\ mode \in {"none", "server"}
  /\ NextToArrive(i)
  /\ mode' = "server"
  /\ args' = [args EXCEPT ![i] = [entry |-> "server", file |-> file, model |-> model,
                                  api_key |-> api_key, base_url |-> Absent]]
  /\ pc' = [pc EXCEPT ![i] = "gq_read"]
  /\ UNCHANGED <<envKey, envUrl, Settings_llm, engineLlm, callClient, modelCalls, fsAccess,
                 readAttempted, promptState, banner, outcome, agentVars>>

(* -------------------------- generate_quiz ----------------------------- *)
\* a read that swallows its exception and goes on with no content
ReadTargetSwallowing(i) ==
  /\ pc[i] = "gq_read"
  /\ fsAccess' = [fsAccess EXCEPT ![i] = TRUE]
  /\ IF args[i].file = "missing"
       THEN /\ pc' = [pc EXCEPT ![i] = "failed"]
            /\ outcome' = [outcome EXCEPT ![i] = "NotFoundError"]
            /\ UNCHANGED readAttempted
       ELSE /\ readAttempted' = [readAttempted EXCEPT ![i] = TRUE]
            /\ pc' = [pc EXCEPT ![i] = "gq_setup"]
            /\ UNCHANGED outcome
  /\ UNCHANGED <<envKey, envUrl, mode, Settings_llm, args, engineLlm, callClient, modelCalls,
                 promptState, banner, agentVars>>

\* lines 72-84: the existence check, then the read of the whole file
ReadTarget(i) ==
  /\ pc[i] = "gq_read"
  /\ fsAccess' = [fsAccess EXCEPT ![i] = TRUE]
  /\ IF args[i].file = "missing"
       THEN /\ pc' = [pc EXCEPT ![i] = "failed"]
            /\ outcome' = [outcome EXCEPT ![i] = "NotFoundError"]
            /\ UNCHANGED readAttempted
       ELSE /\ readAttempted' = [readAttempted EXCEPT ![i] = TRUE]
            /\ IF args[i].file = "unreadable"
                 THEN /\ pc' = [pc EXCEPT ![i] = "failed"]
                      /\ outcome' = [outcome EXCEPT ![i] = "ReadError"]
                 ELSE /\ pc' = [pc EXCEPT ![i] = "gq_setup"]
                      /\ UNCHANGED outcome
  /\ UNCHANGED <<envKey, envUrl, mode, Settings_llm, args, engineLlm, callClient, modelCalls,
                 promptState, banner, agentVars>>

\* lines 94-95: setup_llama_index(model_name or DEFAULT_LLM_MODEL, "",
\* api_key=api_key) when api_key is truthy; no base_url is passed
SetupIfKey(i) ==
  /\ pc[i] = "gq_setup"
  /\ pc' = [pc EXCEPT ![i] = "gq_engine"]
  /\ IF args[i].api_key # Absent
       THEN Settings_llm' = SetupClient(ModelOrDefault(args[i].model), args[i].api_key, Absent)
       ELSE UNCHANGED Settings_llm
  /\ UNCHANGED <<envKey, envUrl, mode, args, engineLlm, callClient, modelCalls, fsAccess,
                 readAttempted, promptState, banner, outcome, agentVars>>

\* lines 98-106: split, index, and build the query engine with llm=Settings.llm.
\* Reading Settings.llm when nothing was assigned makes the library resolve its
\* own default, which either raises or yields (and keeps) the library's client.
BuildEngine(i) ==
  /\ pc[i] = "gq_engine"
  /\ \/ /\ Settings_llm # NoClient
        /\ engineLlm' = [engineLlm EXCEPT ![i] = Settings_llm]
        /\ pc' = [pc EXCEPT ![i] = "gq_prompts"]
        /\ UNCHANGED <<Settings_llm, outcome>>
     \/ /\ Settings_llm = NoClient
        /\ Settings_llm' = LibraryDefaultClient
        /\ engineLlm' = [engineLlm EXCEPT ![i] = LibraryDefaultClient]
        /\ pc' = [pc EXCEPT ![i] = "gq_prompts"]
        /\ UNCHANGED outcome
     \/ /\ Settings_llm = NoClient
        /\ pc' = [pc EXCEPT ![i] = "failed"]
        /\ outcome' = [outcome EXCEPT ![i] = "LibraryError"]
        /\ UNCHANGED <<Settings_llm, engineLlm>>
  /\ UNCHANGED <<envKey, envUrl, mode, args, callClient, modelCalls, fsAccess,
                 readAttempted, promptState, banner, agentVars>>

\* how load_prompts and the lookup of lines 109-114 end for a prompt file:
\* sys.exit(1) after a message (lines 58-60, 66-68, 112-114), an uncaught
\* AttributeError from prompts.get on a value that is no mapping (line 110),
\* or "none" when the prompt is there
PromptOutcome(state) ==
  CASE state \in {"missing", "unparsable", "nokey"} -> "ConfigurationError"
    [] state = "nonmapping" -> "AttributeError"
    [] OTHER -> "none"

\* lines 109-114
LoadPrompts(i, state) ==
  /\ pc[i] = "gq_prompts"
  /\ fsAccess' = [fsAccess EXCEPT ![i] = TRUE]
  /\ promptState' = [promptState EXCEPT ![i] = state]
  /\ outcome' = [outcome EXCEPT ![i] = PromptOutcome(state)]
  /\ pc' = [pc EXCEPT ![i] = IF PromptOutcome(state) = "none" THEN "gq_query" ELSE "failed"]
  /\ UNCHANGED <<envKey, envUrl, mode, Settings_llm, args, engineLlm, callClient, modelCalls,
                 readAttempted, banner, agentVars>>

\* a query that is tried again after a failure
QueryRetrying(i, succeeds) ==
  /\ pc[i] = "gq_query"
  /\ modelCalls' = [modelCalls EXCEPT ![i] = @ + 1]
  /\ callClient' = [callClient EXCEPT ![i] = engineLlm[i]]
  /\ IF succeeds
       THEN /\ banner' = [banner EXCEPT ![i] = TRUE]
            /\ outcome' = [outcome EXCEPT ![i] = "ok"]
            /\ pc' = [pc EXCEPT ![i] = "done"]
       ELSE UNCHANGED <<banner, outcome, pc>>
  /\ UNCHANGED <<envKey, envUrl, mode, Settings_llm, args, engineLlm, fsAccess,
                 readAttempted, promptState, agentVars>>

\* lines 116-123: one query_engine.query; its exception is not caught, its
\* answer is printed between the banners
Query(i, succeeds) ==
  /\ pc[i] = "gq_query"
  /\ modelCalls' = [modelCalls EXCEPT ![i] = @ + 1]
  /\ callClient' = [callClient EXCEPT ![i] = engineLlm[i]]
  /\ IF succeeds
       THEN /\ banner' = [banner EXCEPT ![i] = TRUE]
            /\ outcome' = [outcome EXCEPT ![i] = "ok"]
            /\ pc' = [pc EXCEPT ![i] = "done"]
       ELSE /\ outcome' = [outcome EXCEPT ![i] = "ModelCallError"]
            /\ pc' = [pc EXCEPT ![i] = "failed"]
            /\ UNCHANGED banner
  /\ UNCHANGED <<envKey, envUrl, mode, Settings_llm, args, engineLlm, fsAccess,
                 readAttempted, promptState, agentVars>>

(* ------------------------- Exploration Agent -------------------------- *)
\* the two tools of the Content Loader, and any other name the model may emit
ToolNames == {"list_directory", "read_file", "unknown"}

\* the window of the last HistLen agent states, with st entered
Remember(st) ==
  IF Len(agentHistory) < HistLen
    THEN Append(agentHistory, st)
    ELSE Append(Tail(agentHistory), st)

\* Reasoning -> ToolCall: the model emits a structured request
EmitToolRequest(tool, wellFormed) ==
  /\ agentState = "Reasoning"
  /\ agentState' = "ToolCall"
  /\ agentHistory' = Remember("ToolCall")
  /\ toolRequest' = [tool |-> tool, wellFormed |-> wellFormed]
  /\ UNCHANGED <<observation, cycles, quizVars>>

\* what a tool request yields: an error text for an unknown tool or malformed
\* arguments, else the tool's result or the error text of its failure
ToolOutcomes(request) ==
  IF request.tool = "unknown" \/ ~request.wellFormed THEN {"error"} ELSE {"result", "error"}

\* a tool step that ends the transcript on a request it cannot serve
ExecuteToolAborting(result) ==
  /\ agentState = "ToolCall"
  /\ result \in ToolOutcomes(toolRequest)
  /\ IF toolRequest.tool = "unknown" \/ ~toolRequest.wellFormed
       THEN /\ agentState' = "Done"
            /\ agentHistory' = Remember("Done")
            /\ UNCHANGED observation
       ELSE /\ agentState' = "Observing"
            /\ agentHistory' = Remember("Observing")
            /\ observation' = result
  /\ UNCHANGED <<toolRequest, cycles, quizVars>>

\* ToolCall -> Observing: the tool runs, its result or error text is appended
ExecuteTool(result) ==
  /\ agentState = "ToolCall"
  /\ result \in ToolOutcomes(toolRequest)
  /\ agentState' = "Observing"
  /\ agentHistory' = Remember("Observing")
  /\ observation' = result
  /\ UNCHANGED <<toolRequest, cycles, quizVars>>

\* Observing -> Reasoning: the observation is fed back; one more cycle is over.
\* Nothing caps the number of cycles; the counter only stops counting.
FeedBack ==
  /\ agentState = "Observing"
  /\ agentState' = "Reasoning"
  /\ agentHistory' = Remember("Reasoning")
  /\ cycles' = IF cycles < CycleWindow THEN cycles + 1 ELSE cycles
  /\ UNCHANGED <<toolRequest, observation, quizVars>>

\* Reasoning -> Done: the model emits a final answer
EmitFinalAnswer ==
  /\ agentState = "Reasoning"
  /\ agentState' = "Done"
  /\ agentHistory' = Remember("Done")
  /\ UNCHANGED <<toolRequest, observation, cycles, quizVars>>

AgentNext ==
  \/ \E tool \in ToolNames, wellFormed \in BOOLEAN : EmitToolRequest(tool, wellFormed)
  \/ \E result \in {"result", "error"} : ExecuteTool(result)
  \/ FeedBack
  \/ EmitFinalAnswer

AgentSpec == Init /\ [][AgentNext]_vars

\* the agent takes a step whenever it can
FairAgentSpec == AgentSpec /\ WF_vars(AgentNext)

(* --------------------------- specification ---------------------------- *)
Next ==
  \/ \E i \in Invs, file \in FileStates, model \in ModelNames, k \in ApiKeys, u \in BaseUrls :
       CliMain(i, file, model, k, u)
  \/ \E i \in Invs, file \in FileStates, model \in ModelNames, k \in ApiKeys :
       ReadRoot(i, file, model, k)
  \/ \E i \in Invs : ReadTarget(i)
  \/ \E i \in Invs : SetupIfKey(i)
  \/ \E i \in Invs : BuildEngine(i)
  \/ \E i \in Invs, state \in PromptStates : LoadPrompts(i, state)
  \/ \E i \in Invs, succeeds \in BOOLEAN : Query(i, succeeds)

Spec == Init /\ [][Next]_vars

(* ------------------------------ claims -------------------------------- *)
Terminated(i) == pc[i] \in {"done", "failed"}
Called(i) == modelCalls[i] > 0

\* C1: an invocation with no API key in its argument and none in LLM_API_KEY
\* fails with a configuration error before it touches the filesystem and
\* before any model call, whichever entry point started it.
NoKeyFailsBeforeAnyAccess ==
  \A i \in Invs :
    (pc[i] # "idle" /\ args[i].api_key = Absent /\ envKey = Absent) =>
      /\ ~fsAccess[i]
      /\ modelCalls[i] = 0
      /\ outcome[i] \in {"none", "ConfigurationError"}

\* C2: the client that serves an invocation's model call is the one its own
\* arguments determine (stated for server requests that bring their own key,
\* whose client generate_quiz itself installs), never another invocation's.
OwnClientServesCall ==
  \A i \in Invs :
    (Called(i) /\ args[i].entry = "server" /\ args[i].api_key # Absent) =>
      callClient[i] = SetupClient(ModelOrDefault(args[i].model), args[i].api_key, Absent)

\* C3: a missing target ends generate_quiz with the not-found failure before
\* any read of the file, an unreadable one with the read failure; neither
\* makes a model call or prints the banner.
BadTargetFailsWithoutModelCall ==
  \A i \in Invs :
    fsAccess[i] =>
      /\ args[i].file = "missing" =>
           /\ pc[i] = "failed" /\ outcome[i] = "NotFoundError"
           /\ ~readAttempted[i] /\ modelCalls[i] = 0 /\ ~banner[i]
      /\ args[i].file = "unreadable" =>
           /\ pc[i] = "failed" /\ outcome[i] = "ReadError"
           /\ modelCalls[i] = 0 /\ ~banner[i]

\* C3 witness: one request failed on a missing target, another on an unreadable one
BadTargetsSeen ==
  \E i, j \in Invs :
    /\ args[i].file = "missing" /\ outcome[i] = "NotFoundError"
    /\ args[j].file = "unreadable" /\ outcome[j] = "ReadError" /\ readAttempted[j]

\* C4: when an explicit base URL is given, the client that serves the model
\* call has that base URL, whatever the other arguments are.
ExplicitBaseUrlIsUsed ==
  \A i \in Invs :
    (Called(i) /\ args[i].base_url # Absent) => callClient[i].api_base = args[i].base_url

\* C5: an invocation that went through the query step made exactly one model
\* call; a failed call ends the invocation with that failure and is not
\* repeated.
ExactlyOneModelCall ==
  \A i \in Invs :
    /\ modelCalls[i] <= 1
    /\ (promptState[i] = "ok" /\ pc[i] # "gq_query") => modelCalls[i] = 1
    /\ pc[i] = "done" => (modelCalls[i] = 1 /\ outcome[i] = "ok")
    /\ outcome[i] = "ModelCallError" => (pc[i] = "failed" /\ modelCalls[i] = 1 /\ ~banner[i])

\* C5 witness: one request's model call failed, another's succeeded
FailedAndAnsweredCalls ==
  \E i, j \in Invs :
    /\ outcome[i] = "ModelCallError" /\ modelCalls[i] = 1
    /\ outcome[j] = "ok" /\ modelCalls[j] = 1

\* C6: a prompt file that is missing, unparsable or without a non-empty
\* quiz_generation_prompt ends the invocation with a configuration error,
\* with no model call and no quiz printed.
BadPromptIsConfigurationError ==
  \A i \in Invs :
    promptState[i] \in {"missing", "unparsable", "nonmapping", "nokey"} =>
      /\ pc[i] = "failed" /\ outcome[i] = "ConfigurationError"
      /\ modelCalls[i] = 0 /\ ~banner[i]

\* C7: in the agent's run every ToolCall is followed at once by one Observing,
\* which is followed by Reasoning, and Reasoning is re-entered only from
\* Observing; a request for an unknown tool or with malformed arguments is
\* observed as an error text.
ToolCallThenOneObservation ==
  /\ agentHistory[Len(agentHistory)] = agentState
  /\ \A j \in 1 .. (Len(agentHistory) - 1) :
       /\ agentHistory[j] = "ToolCall" => agentHistory[j + 1] = "Observing"
       /\ agentHistory[j] = "Observing" => agentHistory[j + 1] = "Reasoning"
       /\ agentHistory[j + 1] = "Reasoning" => agentHistory[j] = "Observing"
  /\ (agentState = "Observing" /\ (toolRequest.tool = "unknown" \/ ~toolRequest.wellFormed)) =>
       observation = "error"

\* C7 witness: back in Reasoning after the error observation of an unknown tool
UnknownToolObserved ==
  /\ Len(agentHistory) >= 3
  /\ SubSeq(agentHistory, Len(agentHistory) - 2, Len(agentHistory))
       = <<"ToolCall", "Observing", "Reasoning">>
  /\ toolRequest.tool = "unknown"
  /\ observation = "error"

\* C8: the number of the agent's cycles is capped, so every run of the agent
\* reaches Done.
AgentReachesDone == <>(agentState = "Done")

====
